---- MODULE Spec2Model ----
(***************************************************************************)
(* Model of the blob classification / reorganisation tools:                *)
(*   scripts/edu_blob_organizer/organize_blobs.py  (the organizer driver)  *)
(*   scripts/edu_blob_organizer/classifiers.py     (the tag classifier)    *)
(*   scripts/edu_blob_organizer/azure_clients.py   (the capability probe)  *)
(*   scripts/blob-filename-normalizer.py           (the filename normalizer)*)
(* The remote object store is an external collaborator: it is modelled by  *)
(* the outcomes its primitives can produce (success, an exception, a copy  *)
(* that is still pending, a copy that arrives corrupted).                  *)
(***************************************************************************)
EXTENDS Integers, Sequences, FiniteSets, TLC

(***************************************************************************)
(* Python string primitives on TLA+ strings.                               *)
(***************************************************************************)
CharAt(s, i) == SubSeq(s, i, i)

\* k in s
Contains(s, k) ==
    \E i \in 1..(Len(s) - Len(k) + 1) : SubSeq(s, i, i + Len(k) - 1) = k

\* s.startswith(k)
StartsWith(s, k) == Len(k) <= Len(s) /\ SubSeq(s, 1, Len(k)) = k

\* s.endswith(k)
EndsWith(s, k) == Len(k) <= Len(s) /\ SubSeq(s, Len(s) - Len(k) + 1, Len(s)) = k

\* any(k in base for k in keys)
AnyIn(base, keys) == \E k \in keys : Contains(base, k)

LowerChar(c) ==
    CASE c = "A" -> "a" [] c = "B" -> "b" [] c = "C" -> "c" [] c = "D" -> "d"
      [] c = "E" -> "e" [] c = "F" -> "f" [] c = "G" -> "g" [] c = "H" -> "h"
      [] c = "I" -> "i" [] c = "J" -> "j" [] c = "K" -> "k" [] c = "L" -> "l"
      [] c = "M" -> "m" [] c = "N" -> "n" [] c = "O" -> "o" [] c = "P" -> "p"
      [] c = "Q" -> "q" [] c = "R" -> "r" [] c = "S" -> "s" [] c = "T" -> "t"
      [] c = "U" -> "u" [] c = "V" -> "v" [] c = "W" -> "w" [] c = "X" -> "x"
      [] c = "Y" -> "y" [] c = "Z" -> "z" [] OTHER -> c

RECURSIVE Lower(_)
\* s.lower()
Lower(s) == IF s = "" THEN "" ELSE LowerChar(CharAt(s, 1)) \o Lower(Tail(s))

RECURSIVE ReplaceChar(_, _, _)
\* s.replace(a, b) for a one-character a
ReplaceChar(s, a, b) ==
    IF s = "" THEN ""
    ELSE (IF CharAt(s, 1) = a THEN b ELSE CharAt(s, 1)) \o ReplaceChar(Tail(s), a, b)

RECURSIVE LStrip(_)
LStrip(s) == IF s # "" /\ CharAt(s, 1) = " " THEN LStrip(Tail(s)) ELSE s

RECURSIVE RStrip(_)
RStrip(s) ==
    IF s # "" /\ CharAt(s, Len(s)) = " " THEN RStrip(SubSeq(s, 1, Len(s) - 1)) ELSE s

\* s.strip()
Strip(s) == RStrip(LStrip(s))

\* the positions of "/" in s
SlashPositions(s) == {i \in 1..Len(s) : CharAt(s, i) = "/"}

MaxOf(S) == CHOOSE m \in S : \A x \in S : x <= m

\* name.split("/")[-1]  and  os.path.basename(name)
LastSegment(s) ==
    IF SlashPositions(s) = {} THEN s
    ELSE SubSeq(s, MaxOf(SlashPositions(s)) + 1, Len(s))

\* "/".join(name.split("/")[:-1])
ParentDir(s) ==
    IF SlashPositions(s) = {} THEN ""
    ELSE SubSeq(s, 1, MaxOf(SlashPositions(s)) - 1)

Digits == {"0", "1", "2", "3", "4", "5", "6", "7", "8", "9"}

\* the positions where FILENAME_YEAR_RE matches
YearPositions(s) ==
    {i \in 1..(Len(s) - 3) :
        /\ SubSeq(s, i, i + 1) \in {"20", "19"}
        /\ CharAt(s, i + 2) \in Digits
        /\ CharAt(s, i + 3) \in Digits}

MinOf(S) == CHOOSE m \in S : \A x \in S : m <= x

\* FILENAME_YEAR_RE.search(s): the leftmost match, "" when there is none
YearSearch(s) ==
    IF YearPositions(s) = {} THEN ""
    ELSE SubSeq(s, MinOf(YearPositions(s)), MinOf(YearPositions(s)) + 3)

(***************************************************************************)
(* classifiers.py                                                          *)
(***************************************************************************)
DOC_TYPES ==
    << "guideline", "slide_deck", "textbook_chapter", "article_RCT", "review",
       "protocol_handout", "calculator", "image_figure", "notes", "dataset",
       "website_snapshot" >>

CONDITIONS ==
    << "ACS", "STEMI", "NSTEMI", "OMI", "AF", "HF", "HCM", "valvular",
       "pericarditis", "syncope", "hypertension", "PAD", "EP", "congenital",
       "cardiology_general" >>

SOURCE_ORGS ==
    << "ACC", "AHA", "ESC", "NEJM", "JAMA", "Lancet", "Goldman-Cecil", "CIS",
       "internal" >>

\* the docType keyword groups, in the order of the if/elif chain
DocTypeRules ==
    << [doc |-> "guideline",        keys |-> {"guideline", "guidelines"}],
       [doc |-> "slide_deck",       keys |-> {"slide", "deck", "ppt", "keynote"}],
       [doc |-> "textbook_chapter", keys |-> {"textbook", "chapter", "goldman", "cecil"}],
       [doc |-> "article_RCT",      keys |-> {"rct", "randomized", "randomised", "trial"}],
       [doc |-> "review",           keys |-> {"review", "meta-analysis", "metaanalysis", "systematic"}],
       [doc |-> "protocol_handout", keys |-> {"protocol", "handout", "workflow", "pathway"}],
       [doc |-> "calculator",       keys |-> {"calc", "calculator", "score"}],
       [doc |-> "image_figure",     keys |-> {"figure", "image", "jpg", "jpeg", "png", "svg"}],
       [doc |-> "notes",            keys |-> {"notes", "note", "md", "txt"}],
       [doc |-> "dataset",          keys |-> {"dataset", "csv", "xlsx", "jsonl", "parquet"}],
       [doc |-> "website_snapshot", keys |-> {"snapshot", "website", "web", "archive", "mhtml"}] >>

\* the if/elif chain with the last matching branch winning
FirstRule_LastHit(rules, base) ==
    IF \E i \in 1..Len(rules) : AnyIn(base, rules[i].keys)
    THEN MaxOf({i \in 1..Len(rules) : AnyIn(base, rules[i].keys)})
    ELSE 0

\* the index of the first rule of a table with a keyword in base, 0 when none
FirstRule(rules, base) ==
    IF \E i \in 1..Len(rules) : AnyIn(base, rules[i].keys)
    THEN MinOf({i \in 1..Len(rules) : AnyIn(base, rules[i].keys)})
    ELSE 0

\* doc_type after the docType heuristics ("" when no group matched)
DocTypeOf(base) ==
    IF FirstRule(DocTypeRules, base) = 0 THEN ""
    ELSE DocTypeRules[FirstRule(DocTypeRules, base)].doc

\* evidence_level assigned in every branch of the docType chain
EvidenceOf_Every(doc_type) == doc_type

\* evidence_level as the branches of the docType chain assign it
EvidenceOf(doc_type) ==
    CASE doc_type = "guideline"   -> "guideline"
      [] doc_type = "article_RCT" -> "RCT"
      [] doc_type = "review"      -> "review"
      [] OTHER                    -> ""

\* the secondary condition keyword pass, in the order of the if/elif chain
ConditionRules ==
    << [val |-> "STEMI",        keys |-> {"stemi", "st elevation"}],
       [val |-> "NSTEMI",       keys |-> {"nstemi"}],
       [val |-> "OMI",          keys |-> {"omi"}],
       [val |-> "ACS",          keys |-> {"acs", "acute coronary"}],
       [val |-> "AF",           keys |-> {"af", "atrial fibrillation"}],
       [val |-> "HF",           keys |-> {"hf", "heart failure"}],
       [val |-> "HCM",          keys |-> {"hcm"}],
       [val |-> "valvular",     keys |-> {"valv", "valve"}],
       [val |-> "pericarditis", keys |-> {"pericard"}],
       [val |-> "syncope",      keys |-> {"syncope"}],
       [val |-> "hypertension", keys |-> {"hypertension", "htn"}],
       [val |-> "PAD",          keys |-> {"pad", "peripheral artery"}],
       [val |-> "EP",           keys |-> {"ep", "electrophysiol"}],
       [val |-> "congenital",   keys |-> {"congenital"}] >>

\* condition: the first code of CONDITIONS found in base, else the keyword
\* pass, else cardiology_general
ConditionOf(base) ==
    LET hits == {i \in 1..Len(CONDITIONS) : Contains(base, Lower(CONDITIONS[i]))}
        r    == FirstRule(ConditionRules, base)
    IN  IF hits # {} THEN CONDITIONS[MinOf(hits)]
        ELSE IF r # 0 THEN ConditionRules[r].val
        ELSE "cardiology_general"

\* the secondary source_org keyword pass, in the order of the if/elif chain
SourceOrgRules ==
    << [val |-> "ACC",    keys |-> {"acc", "american college of cardiology"}],
       [val |-> "AHA",    keys |-> {"aha", "american heart association"}],
       [val |-> "ESC",    keys |-> {"esc", "european society of cardiology"}],
       [val |-> "NEJM",   keys |-> {"nejm"}],
       [val |-> "JAMA",   keys |-> {"jama"}],
       [val |-> "Lancet", keys |-> {"lancet"}],
       [val |-> "CIS",    keys |-> {"cis", "clinical information system"}] >>

\* source_org without the assignment in the textbook_chapter branch
SourceOrgOf_NoTextbook(base, doc_type) ==
    LET flat == ReplaceChar(base, "-", "")
        hits == {i \in 1..Len(SOURCE_ORGS) :
                    Contains(flat, ReplaceChar(Lower(SOURCE_ORGS[i]), "-", ""))}
        r    == FirstRule(SourceOrgRules, base)
    IN  IF hits # {} THEN SOURCE_ORGS[MinOf(hits)]
        ELSE IF r # 0 THEN SourceOrgRules[r].val
        ELSE "internal"

\* source_org: the first organisation of SOURCE_ORGS found in base (hyphens
\* removed on both sides); when none is found, the value the docType chain
\* left (Goldman-Cecil for textbook_chapter), else the keyword pass, else
\* internal
SourceOrgOf(base, doc_type) ==
    LET flat == ReplaceChar(base, "-", "")
        hits == {i \in 1..Len(SOURCE_ORGS) :
                    Contains(flat, ReplaceChar(Lower(SOURCE_ORGS[i]), "-", ""))}
        r    == FirstRule(SourceOrgRules, base)
    IN  IF hits # {} THEN SOURCE_ORGS[MinOf(hits)]
        ELSE IF doc_type = "textbook_chapter" THEN "Goldman-Cecil"
        ELSE IF r # 0 THEN SourceOrgRules[r].val
        ELSE "internal"

\* _safe_text_preview on the bytes read ("" for a PDF signature)
TextPreview(data) == IF StartsWith(data, "%PDF") THEN "" ELSE data

\* classify without the sanity defaults
Classify_NoDefaults(filename, preview) ==
    LET base     == Lower(filename)
        doc_type == DocTypeOf(base)
        fyear    == YearSearch(filename)
        year     == IF fyear # "" THEN fyear ELSE YearSearch(preview)
    IN  [ docType         |-> doc_type,
          condition       |-> ConditionOf(base),
          source_org      |-> SourceOrgOf(base, doc_type),
          year            |-> year,
          audience        |-> "clinician",
          evidence_level  |-> EvidenceOf(doc_type),
          retention_class |-> "refresh_annual",
          phi             |-> "no",
          needs_review    |-> IF doc_type = "" THEN "yes" ELSE "no" ]

\* classify with needs_review decided after the notes default was applied
Classify_ReviewAllNotes(filename, preview) ==
    LET base     == Lower(filename)
        doc_type == IF DocTypeOf(base) = "" THEN "notes" ELSE DocTypeOf(base)
        fyear    == YearSearch(filename)
        year     == IF fyear # "" THEN fyear ELSE YearSearch(preview)
    IN  [ docType         |-> doc_type,
          condition       |-> ConditionOf(base),
          source_org      |-> SourceOrgOf(base, doc_type),
          year            |-> IF year = "" THEN "unknown" ELSE year,
          audience        |-> "clinician",
          evidence_level  |-> EvidenceOf(doc_type),
          retention_class |-> "refresh_annual",
          phi             |-> "no",
          needs_review    |-> IF doc_type = "notes" THEN "yes" ELSE "no" ]

\* classify(filename, ...) where preview is the text _safe_text_preview
\* returns ("" when no client is given, or the read failed)
Classify(filename, preview) ==
    LET base     == Lower(filename)
        doc_type == DocTypeOf(base)
        fyear    == YearSearch(filename)
        year     == IF fyear # "" THEN fyear ELSE YearSearch(preview)
    IN  [ docType         |-> IF doc_type = "" THEN "notes" ELSE doc_type,
          condition       |-> ConditionOf(base),
          source_org      |-> SourceOrgOf(base, doc_type),
          year            |-> IF year = "" THEN "unknown" ELSE year,
          audience        |-> "clinician",
          evidence_level  |-> EvidenceOf(doc_type),
          retention_class |-> "refresh_annual",
          phi             |-> "no",
          needs_review    |-> IF doc_type = "" THEN "yes" ELSE "no" ]

(***************************************************************************)
(* organize_blobs.py: the destination resolver                             *)
(***************************************************************************)
\* tags.get(key, default)
dict_get(tags, key, default) ==
    IF key \in DOMAIN tags THEN tags[key] ELSE default

\* the resolver with year and condition composed in the other order
detect_destination_path_YearFirst(tags, filename) ==
    IF dict_get(tags, "needs_review", "None") = "yes"
    THEN "education/_unsorted/" \o filename
    ELSE "education/" \o dict_get(tags, "docType", "notes")
         \o "/" \o dict_get(tags, "year", "unknown")
         \o "/" \o dict_get(tags, "condition", "cardiology_general")
         \o "/" \o dict_get(tags, "source_org", "internal")
         \o "/" \o filename

detect_destination_path(tags, filename) ==
    IF dict_get(tags, "needs_review", "None") = "yes"
    THEN "education/_unsorted/" \o filename
    ELSE "education/" \o dict_get(tags, "docType", "notes")
         \o "/" \o dict_get(tags, "condition", "cardiology_general")
         \o "/" \o dict_get(tags, "year", "unknown")
         \o "/" \o dict_get(tags, "source_org", "internal")
         \o "/" \o filename

(***************************************************************************)
(* The fixture: the object names a run can find in the container, and the  *)
(* bytes each holds when the run starts.                                   *)
(***************************************************************************)
\* the most objects in the container when a run starts
MaxBlobs == 2

\* the largest --max-files (0 stands for the option not given: None)
MaxFiles == 1

\* the names of the fixture, in the order list_blobs yields names (the service
\* lists a container in lexicographic order of the names)
ListingOrder ==
    << "education/_unsorted/scan0042.bin",
       "incoming/",
       "incoming/a/scan0042.bin",
       "incoming/b/scan0042.bin",
       "incoming/esc_hf_review.txt" >>

OrganizerNames == {ListingOrder[i] : i \in DOMAIN ListingOrder}

InitialData(name) ==
    CASE name = "incoming/a/scan0042.bin"          -> "%PDF alpha"
      [] name = "incoming/b/scan0042.bin"          -> "beta bytes"
      [] name = "incoming/esc_hf_review.txt"       -> "published 2021"
      [] name = "education/_unsorted/scan0042.bin" -> "gamma bytes"
      [] OTHER                                     -> ""

\* the content of a destination whose server-side copy has not completed
PartialData == ""

\* what a copy that went wrong leaves at the destination
Corrupted(data) == SubSeq(data, 1, Len(data) - 1)

NoTags == "{}"

\* an object without metadata
NoMetadata == [k \in {} |-> ""]

Blob(data) == [data |-> data, tags |-> NoTags, metadata |-> NoMetadata]

\* every content an object of the fixture can hold during a run
FixtureData ==
    {InitialData(n) : n \in OrganizerNames}
    \cup {Corrupted(InitialData(n)) : n \in OrganizerNames}
    \cup {PartialData}

\* classify and detect_destination_path on the fixture, evaluated once:
\* [filename][preview] -> [tags, dst]
Classified ==
    [f \in {LastSegment(n) : n \in OrganizerNames} |->
        [p \in {TextPreview(d) : d \in FixtureData} |->
            [ tags |-> Classify(f, p),
              dst  |-> detect_destination_path(Classify(f, p), f) ]]]

\* the tags and destination _process_blob computes for an item
ClassifyItem(filename, preview) ==
    IF filename \in DOMAIN Classified /\ preview \in DOMAIN Classified[filename]
    THEN Classified[filename][preview]
    ELSE [ tags |-> Classify(filename, preview),
           dst  |-> detect_destination_path(Classify(filename, preview), filename) ]

Flags == {"--dry-run", "--tag-only", "--use-adls", "--overwrite"}

Prefixes == {"incoming/", ""}

VARIABLES
    blobs,       \* the container: name -> [data, tags, metadata] of each object
    copying,     \* server-side copies started and not yet completed: [src, dst]
    calls,       \* the store primitives issued so far, in order
    argv,        \* the command line: [flags, max_files, prefix]
    hns,         \* the result of is_hns_enabled
    adls_client, \* whether get_blob_and_adls_clients returned a Data Lake client
    listing,     \* the items list_blobs yields, in order
    idx,         \* the position in listing of the item the for loop takes next
    processed,   \* main's counter
    writer,      \* the rows written to the audit CSV, in order
    cur,         \* the locals of _process_blob for the item in hand
    pc,          \* where the program is suspended
    result,      \* normalize_blob_filename: the result dict and the locals
    results,     \* the results normalize_blob_filename has returned, in order
    original,    \* history: the source object as the last operation found it
    initial,     \* history: the container as the run found it
    ledgers      \* history: the rows in the audit file when each earlier run ended

vars == << blobs, copying, calls, argv, hns, adls_client, listing, idx,
           processed, writer, cur, pc, result, results, original, initial, ledgers >>

\* the variables of the organizer driver
orgVars == << argv, hns, adls_client, listing, idx, processed, writer, cur >>

\* the variables of the filename normalizer
normVars == << result, results, original >>

(***************************************************************************)
(* The store primitives (external collaborator, spec section 6).           *)
(***************************************************************************)
Exists(name) == name \in DOMAIN blobs

Call(op, name) == [op |-> op, name |-> name]

MutatingOps == {"set_blob_tags", "start_copy_from_url", "delete_blob",
                "rename", "create_directory"}

\* the container after an object is put at name
Put(store, name, blob) ==
    [n \in DOMAIN store \cup {name} |-> IF n = name THEN blob ELSE store[n]]

\* the container after the object at name is removed
Remove(store, name) == [n \in DOMAIN store \ {name} |-> store[n]]

\* the outcomes of a call on an existing object: it succeeds or the service
\* raises; on a missing object it raises
CallOutcomes(name) ==
    IF Exists(name) THEN {"ok", "ServiceError"} ELSE {"BlobNotFound"}

\* the outcomes of start_copy_from_url: the copy completes at once, is left
\* pending, or the call raises; a copy of an object onto itself has nothing
\* to transfer, and the service refuses a copy onto a destination that still
\* has a copy pending
CopyOutcomes(src, dst) ==
    IF ~Exists(src) THEN {"BlobNotFound"}
    ELSE IF \E c \in copying : c.dst = dst THEN {"ServiceError"}
    ELSE IF src = dst THEN {"ok", "ServiceError"}
    ELSE {"ok", "pending", "ServiceError"}

\* the container after start_copy_from_url(src -> dst) with a non-raising
\* outcome; the destination is replaced when it exists
CopyResult(store, src, dst, outcome) ==
    CASE src = dst           -> store
      [] outcome = "ok"      -> Put(store, dst, [store[src] EXCEPT !.tags = NoTags])
      [] outcome = "pending" -> Put(store, dst, [store[src] EXCEPT !.tags = NoTags,
                                                   !.data = PartialData])

\* the outcomes of the namespace rename
RenameOutcomes(src, dst, overwrite) ==
    IF ~Exists(src) THEN {"PathNotFound"}
    ELSE IF Exists(dst) /\ ~overwrite THEN {"PathAlreadyExists"}
    ELSE {"ok", "ServiceError"}

(***************************************************************************)
(* organize_blobs.py                                                       *)
(***************************************************************************)
\* _build_arg_parser().parse_args(): store_true flags default to False
args ==
    [ dry_run   |-> "--dry-run" \in argv.flags,
      tag_only  |-> "--tag-only" \in argv.flags,
      use_adls  |-> "--use-adls" \in argv.flags,
      overwrite |-> "--overwrite" \in argv.flags,
      max_files |-> argv.max_files,
      prefix    |-> argv.prefix ]

\* is_hns_enabled: the account property, False when the probe raises
is_hns_enabled(probe) ==
    CASE probe = "hns"   -> TRUE
      [] probe = "flat"  -> FALSE
      [] probe = "error" -> FALSE

\* main: use_adls = args.use_adls or hns
use_adls == args.use_adls \/ hns

_determine_action(dry_run, tag_only, adls) ==
    IF dry_run THEN "dry-run"
    ELSE IF tag_only THEN "tag-only"
    ELSE IF adls THEN "rename" ELSE "copy+delete"

\* _apply_changes with the tag_only test placed before the dry_run test
ApplyPath_TagOnlyFirst(dry_run, tag_only, adls, client) ==
    IF tag_only THEN "tag-only"
    ELSE IF dry_run THEN "dry-run"
    ELSE IF adls /\ client THEN "rename"
    ELSE "copy+delete"

\* _apply_changes without the tag_only branch
ApplyPath_NoTagOnly(dry_run, tag_only, adls, client) ==
    IF dry_run THEN "dry-run"
    ELSE IF adls /\ client THEN "rename"
    ELSE "copy+delete"

\* the branch _apply_changes takes
ApplyPath(dry_run, tag_only, adls, client) ==
    IF dry_run THEN "dry-run"
    ELSE IF tag_only THEN "tag-only"
    ELSE IF adls /\ client THEN "rename"
    ELSE "copy+delete"

\* json.dumps(tags)
json_dumps(tags) ==
    "{\"docType\": \"" \o tags.docType
    \o "\", \"condition\": \"" \o tags.condition
    \o "\", \"source_org\": \"" \o tags.source_org
    \o "\", \"year\": \"" \o tags.year
    \o "\", \"audience\": \"" \o tags.audience
    \o "\", \"evidence_level\": \"" \o tags.evidence_level
    \o "\", \"retention_class\": \"" \o tags.retention_class
    \o "\", \"phi\": \"" \o tags.phi
    \o "\", \"needs_review\": \"" \o tags.needs_review \o "\"}"

\* the row _process_blob writes after _apply_changes returned
OkRow(c) ==
    [ source_path |-> c.name, destination_path |-> c.dst, action |-> c.action,
      status |-> "ok", error |-> "", tags_json |-> json_dumps(c.tags) ]

\* the row main's except clause writes
ErrorRow(name, e) ==
    [ source_path |-> name, destination_path |-> "", action |-> "skip",
      status |-> "error", error |-> e, tags_json |-> "{}" ]

\* no normalize_blob_filename call is in progress
NoResult == [blob_name |-> ""]

\* the marker for an object that does not exist
Absent == [data |-> "", tags |-> "absent", metadata |-> NoMetadata]

NoBlob ==
    [ name |-> "", dst |-> "", action |-> "",
      tags |-> [ docType |-> "", condition |-> "", source_org |-> "", year |-> "",
                 audience |-> "", evidence_level |-> "", retention_class |-> "",
                 phi |-> "", needs_review |-> "" ] ]

\* container_client.list_blobs(name_starts_with=prefix)
list_blobs(prefix) ==
    LET Listed(n) == n \in DOMAIN blobs /\ StartsWith(n, prefix)
    IN  SelectSeq(ListingOrder, Listed)

InitOrg ==
    /\ \E S \in SUBSET OrganizerNames :
          /\ Cardinality(S) <= MaxBlobs
          /\ blobs = [n \in S |-> Blob(InitialData(n))]
    /\ copying = {}
    /\ calls = << >>
    /\ \E f \in SUBSET Flags, m \in 0..MaxFiles, p \in Prefixes :
          argv = [flags |-> f, max_files |-> m, prefix |-> p]
    /\ hns = FALSE
    /\ adls_client = FALSE
    /\ listing = << >>
    /\ idx = 1
    /\ processed = 0
    /\ writer = << >>
    /\ cur = NoBlob
    /\ pc = "main"
    /\ result = NoResult
    /\ results = << >>
    /\ original = Absent
    /\ initial = blobs
    /\ ledgers = << >>

\* main, lines 247-276: connect, probe, open the audit file, list
Main ==
    /\ pc = "main"
    /\ \E probe \in {"hns", "flat", "error"}, client \in BOOLEAN :
          /\ hns' = is_hns_enabled(probe)
          /\ adls_client' = client
    /\ writer' = << >>
    /\ listing' = list_blobs(args.prefix)
    /\ pc' = "loop"
    /\ UNCHANGED << blobs, copying, calls, argv, idx, processed, cur, normVars,
                    initial, ledgers >>

\* main: get_blob_and_adls_clients raises (no connection can be made)
SetupFailure ==
    /\ pc = "main"
    /\ pc' = "abort"
    /\ UNCHANGED << blobs, copying, calls, argv, hns, adls_client, listing, idx,
                    processed, writer, cur, normVars, initial, ledgers >>

\* the for loop is exhausted
LoopEnd ==
    /\ pc = "loop"
    /\ idx > Len(listing)
    /\ pc' = "done"
    /\ UNCHANGED << blobs, copying, calls, argv, hns, adls_client, listing, idx,
                    processed, writer, cur, normVars, initial, ledgers >>

\* main, lines 288-294, after _process_blob returned did
AfterProcess(did) ==
    /\ processed' = IF did THEN processed + 1 ELSE processed
    /\ idx' = idx + 1
    /\ pc' = IF args.max_files # 0 /\ processed' >= args.max_files
             THEN "done" ELSE "loop"
    /\ cur' = NoBlob

\* _process_blob, lines 232-244: the ok row, then back in main
Succeed(c) ==
    /\ writer' = Append(writer, OkRow(c))
    /\ AfterProcess(TRUE)

\* main with the exception left to end the for loop
Except_EndsRun(name, e) ==
    /\ writer' = Append(writer, ErrorRow(name, e))
    /\ processed' = processed
    /\ idx' = idx + 1
    /\ pc' = "done"
    /\ cur' = NoBlob

\* main with an except clause that writes no row
Except_NoRow(name, e) ==
    /\ writer' = writer
    /\ processed' = processed
    /\ idx' = idx + 1
    /\ pc' = "loop"
    /\ cur' = NoBlob

\* main, lines 296-308: the except clause
Except(name, e) ==
    /\ writer' = Append(writer, ErrorRow(name, e))
    /\ processed' = processed
    /\ idx' = idx + 1
    /\ pc' = "loop"
    /\ cur' = NoBlob

\* _process_blob on a virtual directory entry
SkipMarker ==
    /\ pc = "loop"
    /\ idx <= Len(listing)
    /\ EndsWith(listing[idx], "/")
    /\ writer' = writer
    /\ AfterProcess(FALSE)
    /\ UNCHANGED << blobs, copying, calls, argv, hns, adls_client, listing, normVars, initial, ledgers >>

\* adls_rename without the step that ensures the parent directory
FirstStep_NoDirectory(path) ==
    CASE path = "tag-only"    -> "set_tags_src"
      [] path = "rename"      -> "rename"
      [] path = "copy+delete" -> "start_copy"

\* the first suspension point of _apply_changes on its branch
FirstStep(path) ==
    CASE path = "tag-only"    -> "set_tags_src"
      [] path = "rename"      -> "create_directory"
      [] path = "copy+delete" -> "start_copy"

\* _process_blob, lines 204-230: classify (with the content peek when the
\* filename shows no year), resolve, and enter _apply_changes
ProcessBlob ==
    /\ pc = "loop"
    /\ idx <= Len(listing)
    /\ ~EndsWith(listing[idx], "/")
    /\ LET name     == listing[idx]
           filename == LastSegment(name)
           peek     == YearSearch(filename) = ""
       IN  \E read \in (IF peek THEN CallOutcomes(name) ELSE {"none"}) :
             LET preview == IF read = "ok" THEN TextPreview(blobs[name].data) ELSE ""
                 tags    == ClassifyItem(filename, preview).tags
                 c       == [ name   |-> name,
                              dst    |-> ClassifyItem(filename, preview).dst,
                              action |-> _determine_action(args.dry_run, args.tag_only, use_adls),
                              tags   |-> tags ]
                 path    == ApplyPath(args.dry_run, args.tag_only, use_adls, adls_client)
             IN  /\ calls' = IF peek THEN Append(calls, Call("download_blob", name))
                             ELSE calls
                 /\ IF path = "dry-run"
                    THEN Succeed(c)
                    ELSE /\ cur' = c
                         /\ pc' = FirstStep(path)
                         /\ UNCHANGED << writer, processed, idx >>
    /\ UNCHANGED << blobs, copying, argv, hns, adls_client, listing, normVars, initial, ledgers >>

\* _apply_changes, lines 175-178: tag-only
SetTagsSrc ==
    /\ pc = "set_tags_src"
    /\ calls' = Append(calls, Call("set_blob_tags", cur.name))
    /\ \E r \in CallOutcomes(cur.name) :
          IF r = "ok"
          THEN /\ blobs' = [blobs EXCEPT ![cur.name].tags = json_dumps(cur.tags)]
               /\ Succeed(cur)
          ELSE /\ blobs' = blobs
               /\ Except(cur.name, r)
    /\ UNCHANGED << copying, argv, hns, adls_client, listing, normVars, initial, ledgers >>

\* adls_rename, lines 57-68: create the parent directory; whatever the store
\* answers, the rename follows
CreateDirectory ==
    /\ pc = "create_directory"
    /\ calls' = Append(calls, Call("create_directory", ParentDir(cur.dst)))
    /\ pc' = "rename"
    /\ UNCHANGED << blobs, copying, argv, hns, adls_client, listing, idx,
                    processed, writer, cur, normVars, initial, ledgers >>

\* adls_rename, line 70: the atomic rename
Rename ==
    /\ pc = "rename"
    /\ calls' = Append(calls, Call("rename", cur.name))
    /\ \E r \in RenameOutcomes(cur.name, cur.dst, args.overwrite) :
          IF r = "ok"
          THEN /\ blobs' = Put(Remove(blobs, cur.name), cur.dst, blobs[cur.name])
               /\ pc' = "set_tags_dst"
               /\ UNCHANGED << writer, processed, idx, cur >>
          ELSE /\ blobs' = blobs
               /\ Except(cur.name, r)
    /\ UNCHANGED << copying, argv, hns, adls_client, listing, normVars, initial, ledgers >>

\* copy_and_delete, line 44: start the server-side copy
StartCopy ==
    /\ pc = "start_copy"
    /\ calls' = Append(calls, Call("start_copy_from_url", cur.dst))
    /\ \E r \in CopyOutcomes(cur.name, cur.dst) :
          IF r \in {"ok", "pending"}
          THEN /\ blobs' = CopyResult(blobs, cur.name, cur.dst, r)
               /\ copying' = IF r = "pending"
                             THEN copying \cup {[src |-> cur.name, dst |-> cur.dst]}
                             ELSE copying
               /\ pc' = "delete_src"
               /\ UNCHANGED << writer, processed, idx, cur >>
          ELSE /\ blobs' = blobs
               /\ copying' = copying
               /\ Except(cur.name, r)
    /\ UNCHANGED << argv, hns, adls_client, listing, normVars, initial, ledgers >>

\* copy_and_delete, line 47: delete the source
DeleteSrc ==
    /\ pc = "delete_src"
    /\ calls' = Append(calls, Call("delete_blob", cur.name))
    /\ \E r \in CallOutcomes(cur.name) :
          IF r = "ok"
          THEN /\ blobs' = Remove(blobs, cur.name)
               /\ copying' = {c \in copying : c.dst # cur.name /\ c.src # cur.name}
               /\ pc' = "set_tags_dst"
               /\ UNCHANGED << writer, processed, idx, cur >>
          ELSE /\ blobs' = blobs
               /\ copying' = copying
               /\ Except(cur.name, r)
    /\ UNCHANGED << argv, hns, adls_client, listing, normVars, initial, ledgers >>

\* _apply_changes, lines 182-183 and 188-189: tag the object at the destination
SetTagsDst ==
    /\ pc = "set_tags_dst"
    /\ calls' = Append(calls, Call("set_blob_tags", cur.dst))
    /\ \E r \in CallOutcomes(cur.dst) :
          IF r = "ok"
          THEN /\ blobs' = [blobs EXCEPT ![cur.dst].tags = json_dumps(cur.tags)]
               /\ Succeed(cur)
          ELSE /\ blobs' = blobs
               /\ Except(cur.name, r)
    /\ UNCHANGED << copying, argv, hns, adls_client, listing, normVars, initial, ledgers >>

\* the store completes a pending copy: the bytes arrive (intact or damaged)
\* when the source is still there, and the copy fails when it is gone
CopyCompletes ==
    /\ \E c \in copying :
          /\ copying' = copying \ {c}
          /\ IF Exists(c.src) /\ Exists(c.dst)
             THEN \E d \in {blobs[c.src].data, Corrupted(blobs[c.src].data)} :
                     blobs' = [blobs EXCEPT ![c.dst].data = d]
             ELSE blobs' = blobs
    /\ UNCHANGED << calls, pc, orgVars, normVars, initial, ledgers >>

DriverStep ==
    \/ Main
    \/ SetupFailure
    \/ LoopEnd
    \/ SkipMarker
    \/ ProcessBlob
    \/ SetTagsSrc
    \/ CreateDirectory
    \/ Rename
    \/ StartCopy
    \/ DeleteSrc
    \/ SetTagsDst

NextOrg == DriverStep \/ CopyCompletes

SpecOrg == InitOrg /\ [][NextOrg]_vars

\* the driver is a sequential program: it always takes its next step
FairOrg == SpecOrg /\ WF_vars(DriverStep)

\* the most invocations of the driver, one after the other, on a container
MaxInvocations == 2

\* the command is invoked again with the same arguments once a run has ended
InvokeAgain ==
    /\ pc \in {"done", "abort"}
    /\ Len(ledgers) + 1 < MaxInvocations
    /\ ledgers' = Append(ledgers, writer)
    /\ pc' = "main"
    /\ hns' = FALSE
    /\ adls_client' = FALSE
    /\ listing' = << >>
    /\ idx' = 1
    /\ processed' = 0
    /\ cur' = NoBlob
    /\ calls' = << >>
    /\ initial' = blobs
    /\ UNCHANGED << blobs, copying, argv, writer, normVars >>

\* the most objects in the container the successive runs start from
MaxRunBlobs == 1

InitRuns == InitOrg /\ Cardinality(DOMAIN blobs) <= MaxRunBlobs

NextRuns == NextOrg \/ InvokeAgain

\* successive runs of the driver on one container
SpecRuns == InitRuns /\ [][NextRuns]_vars

(***************************************************************************)
(* blob-filename-normalizer.py                                             *)
(***************************************************************************)
\* the most calls of normalize_blob_filename in one run of the tool
MaxRuns == 2

Metadata(year, source_org) ==
    [k \in {"year", "source_org"} |-> IF k = "year" THEN year ELSE source_org]

NormalizerNames ==
    {"education/g.pdf", "2019-acc-g.pdf", "education/n.txt", "t.pdf"}

\* the objects of the normalizer's fixture
NormalizerBlob(name) ==
    CASE name = "education/g.pdf" ->
            [data |-> "%PDF guide", tags |-> NoTags, metadata |-> Metadata("2019", "ACC")]
      [] name = "2019-acc-g.pdf" ->
            [data |-> "older bytes", tags |-> NoTags, metadata |-> Metadata("2019", "ACC")]
      [] name = "education/n.txt" ->
            [data |-> "ward notes", tags |-> NoTags, metadata |-> NoMetadata]
      [] name = "t.pdf" ->
            [data |-> "%PDF text", tags |-> NoTags,
             metadata |-> [k \in {"source_org"} |-> " Goldman Cecil "]]

\* None
None == "None"

\* tags.get(key, "unknown")
Get(tags, key) == IF key \in DOMAIN tags THEN tags[key] ELSE "unknown"

\* generate_normalized_name
generate_normalized_name(blob_name, tags) ==
    LET year       == IF Get(tags, "year") # "unknown"
                      THEN Strip(Get(tags, "year")) ELSE "unknown"
        source_org == IF Get(tags, "source_org") # "unknown"
                      THEN ReplaceChar(Lower(Strip(Get(tags, "source_org"))), " ", "_")
                      ELSE "unknown"
    IN  year \o "-" \o source_org \o "-" \o LastSegment(blob_name)

\* hashlib.md5 of the bytes downloaded
Md5(data) == "md5:" \o data

\* calculate_checksum: the digest, None when the download raises
calculate_checksum(name, outcome) ==
    IF outcome = "ok" THEN Md5(blobs[name].data) ELSE None

\* the comparison made only when the destination digest could be computed
ChecksumsDiffer_IgnoreNone(dest_checksum, source_checksum) ==
    dest_checksum # None /\ dest_checksum # source_checksum

\* the comparison that guards the delete of the original (line 160)
ChecksumsDiffer(dest_checksum, source_checksum) == dest_checksum # source_checksum

InitNorm ==
    /\ \E S \in SUBSET NormalizerNames : blobs = [n \in S |-> NormalizerBlob(n)]
    /\ copying = {}
    /\ calls = << >>
    /\ argv = [flags |-> {}, max_files |-> 0, prefix |-> ""]
    /\ hns = FALSE
    /\ adls_client = FALSE
    /\ listing = << >>
    /\ idx = 1
    /\ processed = 0
    /\ writer = << >>
    /\ cur = NoBlob
    /\ pc = "idle"
    /\ result = NoResult
    /\ results = << >>
    /\ original = Absent
    /\ initial = blobs
    /\ ledgers = << >>

\* return result
Return(r) ==
    /\ results' = Append(results,
                         [ blob_name       |-> r.blob_name,
                           normalized_name |-> r.normalized_name,
                           action          |-> r.action,
                           reason          |-> r.reason,
                           checksum_match  |-> r.checksum_match ])
    /\ result' = NoResult
    /\ pc' = "idle"

\* normalize_blob_filename, lines 102-134: get the tags, build the name,
\* and return at once when there is nothing to do or this is a dry run
NormalizeBlob ==
    /\ pc = "idle"
    /\ Len(results) < MaxRuns
    /\ \E blob_name \in NormalizerNames \cup DOMAIN blobs, dry_run \in BOOLEAN :
        \E got \in CallOutcomes(blob_name) :
          LET tags == IF got = "ok" THEN blobs[blob_name].metadata ELSE NoMetadata
              normalized_name == generate_normalized_name(blob_name, tags)
              r == [ blob_name |-> blob_name, normalized_name |-> None,
                     action |-> "skipped", reason |-> None, checksum_match |-> None,
                     dry_run |-> dry_run, source_checksum |-> None,
                     dest_checksum |-> None ]
          IN  /\ calls' = Append(calls, Call("get_blob_properties", blob_name))
              /\ original' = IF Exists(blob_name) THEN blobs[blob_name] ELSE Absent
              /\ IF got # "ok"
                 THEN Return([r EXCEPT !.reason = "blob_not_found"])
                 ELSE IF DOMAIN tags = {}
                 THEN Return([r EXCEPT !.reason = "no_tags"])
                 ELSE IF normalized_name = blob_name
                 THEN Return([r EXCEPT !.reason = "already_normalized"])
                 ELSE IF dry_run
                 THEN Return([r EXCEPT !.normalized_name = normalized_name,
                                       !.action = "dry_run",
                                       !.reason = "would_rename"])
                 ELSE /\ result' = [r EXCEPT !.normalized_name = normalized_name]
                      /\ pc' = "source_checksum"
                      /\ results' = results
    /\ UNCHANGED << blobs, copying, orgVars, initial, ledgers >>

\* lines 139-142: the checksum of the source
SourceChecksum ==
    /\ pc = "source_checksum"
    /\ calls' = Append(calls, Call("download_blob", result.blob_name))
    /\ \E got \in CallOutcomes(result.blob_name) :
          LET source_checksum == calculate_checksum(result.blob_name, got)
          IN  IF source_checksum = None
              THEN Return([result EXCEPT !.reason = "checksum_failed"])
              ELSE /\ result' = [result EXCEPT !.source_checksum = source_checksum]
                   /\ pc' = "copy"
                   /\ results' = results
    /\ UNCHANGED << blobs, copying, original, orgVars, initial, ledgers >>

\* lines 145-151: start the copy to the new name
CopyToNewName ==
    /\ pc = "copy"
    /\ calls' = Append(calls, Call("start_copy_from_url", result.normalized_name))
    /\ \E r \in CopyOutcomes(result.blob_name, result.normalized_name) :
          IF r \in {"ok", "pending"}
          THEN /\ blobs' = CopyResult(blobs, result.blob_name, result.normalized_name, r)
               /\ copying' = IF r = "pending"
                             THEN copying \cup {[src |-> result.blob_name,
                                                 dst |-> result.normalized_name]}
                             ELSE copying
               /\ pc' = "dest_checksum"
               /\ UNCHANGED << result, results >>
          ELSE /\ blobs' = blobs
               /\ copying' = copying
               /\ Return([result EXCEPT !.reason = "rename_failed: " \o r])
    /\ UNCHANGED << original, orgVars, initial, ledgers >>

\* lines 156-162: after the fixed wait, the checksum of the copy and the
\* comparison
DestChecksum ==
    /\ pc = "dest_checksum"
    /\ calls' = Append(calls, Call("download_blob", result.normalized_name))
    /\ \E got \in CallOutcomes(result.normalized_name) :
          LET dest_checksum == calculate_checksum(result.normalized_name, got)
          IN  IF ChecksumsDiffer(dest_checksum, result.source_checksum)
              THEN /\ result' = [result EXCEPT !.dest_checksum = dest_checksum,
                                               !.reason = "checksum_mismatch",
                                               !.checksum_match = "False"]
                   /\ pc' = "cleanup"
              ELSE /\ result' = [result EXCEPT !.dest_checksum = dest_checksum]
                   /\ pc' = "delete_original"
    /\ UNCHANGED << blobs, copying, results, original, orgVars, initial, ledgers >>

\* lines 163-168: delete the failed copy, whatever the store answers
CleanUp ==
    /\ pc = "cleanup"
    /\ calls' = Append(calls, Call("delete_blob", result.normalized_name))
    /\ \E r \in CallOutcomes(result.normalized_name) :
          IF r = "ok"
          THEN /\ blobs' = Remove(blobs, result.normalized_name)
               /\ copying' = {c \in copying : c.dst # result.normalized_name
                                               /\ c.src # result.normalized_name}
          ELSE /\ blobs' = blobs
               /\ copying' = copying
    /\ Return(result)
    /\ UNCHANGED << original, orgVars, initial, ledgers >>

\* lines 170-177: delete the original
DeleteOriginal ==
    /\ pc = "delete_original"
    /\ calls' = Append(calls, Call("delete_blob", result.blob_name))
    /\ \E r \in CallOutcomes(result.blob_name) :
          IF r = "ok"
          THEN /\ blobs' = Remove(blobs, result.blob_name)
               /\ copying' = {c \in copying : c.dst # result.blob_name
                                               /\ c.src # result.blob_name}
               /\ Return([result EXCEPT !.action = "renamed",
                                        !.checksum_match = "True"])
          ELSE /\ blobs' = blobs
               /\ copying' = copying
               /\ Return([result EXCEPT !.reason = "rename_failed: " \o r])
    /\ UNCHANGED << original, orgVars, initial, ledgers >>

NormalizerStep ==
    \/ NormalizeBlob
    \/ SourceChecksum
    \/ CopyToNewName
    \/ DestChecksum
    \/ CleanUp
    \/ DeleteOriginal

NextNorm == NormalizerStep \/ CopyCompletes

SpecNorm == InitNorm /\ [][NextNorm]_vars

(***************************************************************************)
(* The classifier and the resolver on their own: _process_blob's lines     *)
(* 204-216 applied to filenames and previews drawn from a vocabulary, and  *)
(* detect_destination_path applied to tag dicts, complete or not.          *)
(***************************************************************************)
NameHeads == {"", "2019_ACC_", "ESC-", "1987 "}

NameStems ==
    { "", "scan", "Guideline", "slides", "Chapter", "trial", "Review",
      "handout", "score", "figure", "notes", "dataset", "website" }

NameTails == {"", "_deck", "_review", "_HF", ".txt", "_cecil"}

\* filenames whose only wording is a condition code
CodeNames == {CONDITIONS[i] : i \in DOMAIN CONDITIONS}

\* the filenames classify is applied to
Filenames ==
    {h \o m \o t : h \in NameHeads, m \in NameStems, t \in NameTails}
        \cup CodeNames

\* the texts the content peek can return
Previews == {"", "published 2021"}

\* the tag dicts detect_destination_path is applied to: what classify
\* returns, and dicts with keys missing or set by hand
ResolverTags ==
    {Classify(f, "") : f \in {"", "scan", "2019_ACC_Guideline_HF", "Chapter.txt"}}
    \cup { NoMetadata,
           [needs_review |-> "yes"],
           [needs_review |-> "yes", docType |-> "guideline", condition |-> "AF",
            year |-> "2020", source_org |-> "ESC"],
           [needs_review |-> "no", docType |-> "review"],
           [docType |-> "dataset", condition |-> "HF", year |-> "1999",
            source_org |-> "NEJM"] }

\* the filenames detect_destination_path is applied to
ResolverNames == {"", "a.pdf", "2019_ACC_Guideline_HF"}

\* classify on the vocabulary, evaluated once: [filename][preview] -> tags
ClassifiedNames ==
    [f \in Filenames |-> [p \in Previews |-> Classify(f, p)]]

InitCls ==
    /\ blobs = [n \in {} |-> Blob("")]
    /\ copying = {}
    /\ calls = << >>
    /\ argv = [flags |-> {}, max_files |-> 0, prefix |-> ""]
    /\ hns = FALSE
    /\ adls_client = FALSE
    /\ listing = << >>
    /\ idx = 1
    /\ processed = 0
    /\ writer = << >>
    /\ cur = NoBlob
    /\ pc = "classify"
    /\ result = NoResult
    /\ results = << >>
    /\ original = Absent
    /\ initial = blobs
    /\ ledgers = << >>

\* _process_blob, lines 206-216: classify a filename (the preview is what the
\* content peek would return) and resolve its destination
ClassifyFile ==
    /\ pc \in {"classify", "classified", "resolved"}
    /\ \E f \in Filenames, p \in Previews :
          cur' = [ name    |-> f,
                   preview |-> p,
                   tags    |-> ClassifiedNames[f][p],
                   dst     |-> detect_destination_path(ClassifiedNames[f][p], f),
                   action  |-> "" ]
    /\ pc' = "classified"
    /\ UNCHANGED << blobs, copying, calls, argv, hns, adls_client, listing, idx,
                    processed, writer, normVars, initial, ledgers >>

\* detect_destination_path on a tag dict and a filename
ResolvePath ==
    /\ pc \in {"classify", "classified", "resolved"}
    /\ \E t \in ResolverTags, f \in ResolverNames :
          cur' = [ name    |-> f,
                   preview |-> "",
                   tags    |-> t,
                   dst     |-> detect_destination_path(t, f),
                   action  |-> "" ]
    /\ pc' = "resolved"
    /\ UNCHANGED << blobs, copying, calls, argv, hns, adls_client, listing, idx,
                    processed, writer, normVars, initial, ledgers >>

NextCls == ClassifyFile \/ ResolvePath

SpecCls == InitCls /\ [][NextCls]_vars

(***************************************************************************)
(* Properties of the classifier and the resolver (SpecCls).                *)
(***************************************************************************)
RECURSIVE Split(_)
\* s.split("/")
Split(s) ==
    IF SlashPositions(s) = {} THEN << s >>
    ELSE << SubSeq(s, 1, MinOf(SlashPositions(s)) - 1) >>
         \o Split(SubSeq(s, MinOf(SlashPositions(s)) + 1, Len(s)))

\* C13: detect_destination_path is a total function of (tags, filename):
\* with needs_review equal to yes the path is education/_unsorted/<filename>
\* and never a taxonomy path; otherwise it is
\* education/<docType>/<condition>/<year>/<source_org>/<filename>, in that
\* order (a key the dict lacks takes its default); every application gives
\* the path of its arguments, whatever was resolved before.
C13_ResolverShape ==
    pc \in {"classified", "resolved"} =>
        LET t == cur.tags
        IN  IF dict_get(t, "needs_review", "None") = "yes"
            THEN Split(cur.dst) = << "education", "_unsorted", cur.name >>
            ELSE Split(cur.dst) =
                    << "education",
                       dict_get(t, "docType", "notes"),
                       dict_get(t, "condition", "cardiology_general"),
                       dict_get(t, "year", "unknown"),
                       dict_get(t, "source_org", "internal"),
                       cur.name >>

\* a complete tag dict without needs_review was resolved to a taxonomy path
C13_Witness ==
    /\ pc = "resolved"
    /\ cur.tags = [docType |-> "dataset", condition |-> "HF", year |-> "1999",
                   source_org |-> "NEJM"]
    /\ cur.dst = "education/dataset/HF/1999/NEJM/a.pdf"

\* the nine keys of a tag set
TagKeys ==
    { "docType", "condition", "source_org", "year", "audience",
      "evidence_level", "retention_class", "phi", "needs_review" }

\* the docType keyword groups with a keyword in the lower-cased filename
MatchedGroups(filename) ==
    {i \in 1..Len(DocTypeRules) : AnyIn(Lower(filename), DocTypeRules[i].keys)}

\* a canonical condition code or a condition keyword is in the filename
ConditionMatched(filename) ==
    \/ \E i \in 1..Len(CONDITIONS) : Contains(Lower(filename), Lower(CONDITIONS[i]))
    \/ \E i \in 1..Len(ConditionRules) : AnyIn(Lower(filename), ConditionRules[i].keys)

\* a canonical organisation name is in the filename (hyphens ignored) or an
\* organisation keyword is
OrgMatched(filename) ==
    \/ \E i \in 1..Len(SOURCE_ORGS) :
          Contains(ReplaceChar(Lower(filename), "-", ""),
                   ReplaceChar(Lower(SOURCE_ORGS[i]), "-", ""))
    \/ \E i \in 1..Len(SourceOrgRules) : AnyIn(Lower(filename), SourceOrgRules[i].keys)

\* C14: the tag set classify returns has all nine keys; docType, condition,
\* source_org and year are never empty and take the fallbacks notes,
\* cardiology_general, internal and unknown when nothing matches; audience,
\* retention_class and phi are clinician, refresh_annual and no.
C14_AllKeysFilled ==
    pc = "classified" =>
        LET t == cur.tags
            f == cur.name
        IN  /\ DOMAIN t = TagKeys
            /\ t.docType # "" /\ t.condition # ""
            /\ t.source_org # "" /\ t.year # ""
            /\ t.audience = "clinician"
            /\ t.retention_class = "refresh_annual"
            /\ t.phi = "no"
            /\ MatchedGroups(f) = {} => t.docType = "notes"
            /\ ~ConditionMatched(f) => t.condition = "cardiology_general"
            /\ (MatchedGroups(f) = {} /\ ~OrgMatched(f)) => t.source_org = "internal"
            /\ (YearSearch(f) = "" /\ YearSearch(cur.preview) = "") => t.year = "unknown"
            /\ f = "" => /\ t.docType = "notes"
                         /\ t.condition = "cardiology_general"
                         /\ t.source_org = "internal"
                         /\ t.needs_review = "yes"

\* the empty filename, without a preview, was classified: all defaults
C14_Witness ==
    /\ pc = "classified" /\ cur.name = "" /\ cur.preview = ""
    /\ cur.tags.docType = "notes" /\ cur.tags.year = "unknown"

\* C15: needs_review is yes exactly when no docType keyword group matched
\* the lower-cased filename; a filename whose first match is the notes group
\* gets docType notes with needs_review no.
C15_NeedsReviewIffNoGroup ==
    pc = "classified" =>
        /\ cur.tags.needs_review \in {"yes", "no"}
        /\ cur.tags.needs_review = "yes" <=> MatchedGroups(cur.name) = {}
        /\ (MatchedGroups(cur.name) # {}
              /\ DocTypeRules[MinOf(MatchedGroups(cur.name))].doc = "notes") =>
                /\ cur.tags.docType = "notes"
                /\ cur.tags.needs_review = "no"

\* a filename of the notes group was classified notes, no review needed
C15_Witness ==
    /\ pc = "classified" /\ cur.name = "notes.txt"
    /\ cur.tags.docType = "notes" /\ cur.tags.needs_review = "no"

\* the keywords of a docType group
KeysOf(doc) ==
    UNION {DocTypeRules[i].keys : i \in {j \in 1..Len(DocTypeRules) : DocTypeRules[j].doc = doc}}

\* the positions in DOC_TYPES of the groups with a keyword in the filename
GroupsInOrder(filename) ==
    {i \in 1..Len(DOC_TYPES) : AnyIn(Lower(filename), KeysOf(DOC_TYPES[i]))}

\* C18: the docType keyword groups are tested in the order guideline,
\* slide_deck, textbook_chapter, article_RCT, review, protocol_handout,
\* calculator, image_figure, notes, dataset, website_snapshot; the docType
\* returned is the first group in that order with a keyword in the
\* filename, whatever later groups match.
C18_FirstGroupWins ==
    /\ DOC_TYPES = << "guideline", "slide_deck", "textbook_chapter", "article_RCT",
                      "review", "protocol_handout", "calculator", "image_figure",
                      "notes", "dataset", "website_snapshot" >>
    /\ (pc = "classified" /\ GroupsInOrder(cur.name) # {}) =>
          cur.tags.docType = DOC_TYPES[MinOf(GroupsInOrder(cur.name))]

\* a filename with keywords of article_RCT and of review was classified
C18_Witness ==
    /\ pc = "classified" /\ cur.name = "trial_review"
    /\ Cardinality(GroupsInOrder(cur.name)) = 2
    /\ cur.tags.docType = "article_RCT"

\* C19: a filename in which no canonical organisation name and no
\* organisation keyword matches gets source_org internal, whatever its
\* docType.
C19_DefaultInternal ==
    (pc = "classified" /\ ~OrgMatched(cur.name)) => cur.tags.source_org = "internal"

\* C19 as the code has it: without an organisation match source_org is
\* Goldman-Cecil when docType is textbook_chapter, and internal for every
\* other docType.
C19_DefaultInternalUnlessTextbook ==
    (pc = "classified" /\ ~OrgMatched(cur.name)) =>
        cur.tags.source_org =
            IF cur.tags.docType = "textbook_chapter" THEN "Goldman-Cecil"
            ELSE "internal"

\* a textbook chapter without an organisation in its name was classified
C19_Witness ==
    /\ pc = "classified" /\ cur.name = "Chapter.txt"
    /\ ~OrgMatched(cur.name)
    /\ cur.tags.source_org = "Goldman-Cecil"

\* C20: evidence_level is non-empty exactly when docType is guideline,
\* article_RCT or review, and then names that classification (guideline,
\* RCT, review); for every other docType it is the empty string.
C20_EvidenceOnlyForThree ==
    pc = "classified" =>
        /\ cur.tags.evidence_level # "" <=>
              cur.tags.docType \in {"guideline", "article_RCT", "review"}
        /\ cur.tags.docType = "guideline" => cur.tags.evidence_level = "guideline"
        /\ cur.tags.docType = "article_RCT" => cur.tags.evidence_level = "RCT"
        /\ cur.tags.docType = "review" => cur.tags.evidence_level = "review"

\* a randomized trial was classified with evidence level RCT
C20_Witness ==
    /\ pc = "classified"
    /\ cur.tags.docType = "article_RCT" /\ cur.tags.evidence_level = "RCT"

(***************************************************************************)
(* Properties of the organizer (SpecOrg, FairOrg).                         *)
(***************************************************************************)
\* the run is live: neither --dry-run nor --tag-only
Live == ~args.dry_run /\ ~args.tag_only

\* no item is in hand: the driver is between items or has stopped
BetweenItems == pc \in {"loop", "done"}

IsMarker(name) == EndsWith(name, "/")

\* the mutating store calls issued so far
MutatingCalls == {i \in DOMAIN calls : calls[i].op \in MutatingOps}

\* the items the for loop has taken and finished with
Taken == IF BetweenItems THEN 1..(idx - 1) ELSE {}

\* the positions in writer of the rows about an item
RowsOf(name) == {i \in DOMAIN writer : writer[i].source_path = name}

\* C1: in a live run, after any sequence of item moves, the content of every
\* object listed at the start of the run is still in the store (at its source
\* path or at its destination path): no content is lost.
C1_NoContentLost ==
    (Live /\ BetweenItems) =>
        \A i \in DOMAIN listing :
            ~IsMarker(listing[i]) =>
                \E n \in DOMAIN blobs : blobs[n].data = initial[listing[i]].data

\* C2: on the organizer's copy-then-delete path the source is deleted only
\* after its checksum was taken before the copy and the checksum of the
\* destination copy was taken after the copy (and the two compared equal):
\* every delete of a source follows a read of the source, the copy, and a
\* read of the copy, in that order.
C2_DeleteOnlyAfterVerify ==
    \A d \in DOMAIN calls :
        calls[d].op = "delete_blob" =>
            \E s, c, v \in DOMAIN calls :
                /\ s < c /\ c < v /\ v < d
                /\ calls[s] = Call("download_blob", calls[d].name)
                /\ calls[c].op = "start_copy_from_url"
                /\ calls[v] = Call("download_blob", calls[c].name)

\* C6: live changes are opt-in: a run started without any flag issues no
\* mutating store call.
C6_DefaultIsDryRun == argv.flags = {} => MutatingCalls = {}

\* C8: in a live run, for an item whose resolved destination equals its own
\* path, the mover issues no store call for it, the object stays as it was,
\* and the outcome recorded is already_normalized.
C8_NoOpWhenAlreadyPlaced ==
    /\ (Live /\ cur.name # "" /\ cur.dst = cur.name) =>
          /\ pc \notin {"create_directory", "rename", "start_copy", "delete_src",
                        "set_tags_dst"}
          /\ Exists(cur.name) /\ blobs[cur.name] = initial[cur.name]
    /\ \A i \in DOMAIN writer :
          (Live /\ writer[i].destination_path = writer[i].source_path) =>
              writer[i].action = "already_normalized"

\* C9: the mover takes one action path, chosen by dry_run over tag_only over
\* atomic rename (when the probe found the capability) over copy-then-delete.
C9_ActionPriority ==
    /\ args.dry_run => pc \in {"main", "abort", "loop", "done"}
    /\ pc = "set_tags_src" => ~args.dry_run /\ args.tag_only
    /\ pc \in {"create_directory", "rename"} => Live /\ hns
    /\ pc \in {"start_copy", "delete_src"} => Live /\ ~hns
    /\ pc = "set_tags_dst" => Live

\* the text previews classify can get for an item of the listing
PreviewsOf(name) == {"", TextPreview(initial[name].data)}

\* a row is the ok row of an item, with the destination and tags resolved
\* for it and the given action
IsOkRowOf(row, name, action) ==
    /\ row.source_path = name /\ row.status = "ok" /\ row.action = action
    /\ \E p \in PreviewsOf(name) :
          /\ row.destination_path = ClassifyItem(LastSegment(name), p).dst
          /\ row.tags_json = json_dumps(ClassifyItem(LastSegment(name), p).tags)

\* C7: a run with dry_run set issues no mutating store call, leaves the
\* objects and their tags as they were, and has written exactly one audit
\* record, with the would-be destination, for each item it has processed.
C7_DryRunPurity ==
    args.dry_run =>
        /\ MutatingCalls = {}
        /\ blobs = initial /\ copying = {}
        /\ Len(writer) = Cardinality({i \in Taken : ~IsMarker(listing[i])})
        /\ \A i \in Taken :
              ~IsMarker(listing[i]) =>
                  /\ Cardinality(RowsOf(listing[i])) = 1
                  /\ \A j \in RowsOf(listing[i]) :
                        IsOkRowOf(writer[j], listing[i], "dry-run")

\* a dry run that went through two items
C7_Witness == args.dry_run /\ pc = "done" /\ Len(writer) = 2

\* the run stopped because --max-files was reached
CapReached ==
    pc = "done" /\ args.max_files # 0 /\ processed >= args.max_files

\* every non-marker item of the listing has an audit record
AllAudited ==
    \A i \in DOMAIN listing : ~IsMarker(listing[i]) => RowsOf(listing[i]) # {}

\* the suspension points of one item, counted from the last one
StepsLeft ==
    CASE pc = "loop"             -> 5
      [] pc = "set_tags_src"     -> 4
      [] pc = "create_directory" -> 4
      [] pc = "start_copy"       -> 4
      [] pc = "rename"           -> 3
      [] pc = "delete_src"       -> 3
      [] pc = "set_tags_dst"     -> 2
      [] OTHER                   -> 0

\* a bound on the driver steps still to come
Remaining ==
    CASE pc = "main"              -> 6 * (Cardinality(DOMAIN blobs) + 2)
      [] pc \in {"done", "abort"} -> 0
      [] OTHER                    -> 6 * (Len(listing) + 1 - idx) + StepsLeft

\* C10: a failure while processing an item is caught and recorded as an error
\* row with its reason, and the driver goes on to the next item; every
\* non-marker item listed before the cap is reached eventually gets an audit
\* record.  Stated for the fair driver as: a step that writes an error row
\* moves on to the next item; until it has stopped the driver always has a
\* next step, and each of its steps brings the end nearer; and once it has
\* stopped, every non-marker item has a record unless the cap stopped it.
C10_FailureIsolation ==
    /\ [][(Len(writer') > Len(writer) /\ writer'[Len(writer')].status = "error") =>
            /\ writer'[Len(writer')].source_path = listing[idx]
            /\ writer'[Len(writer')].error # ""
            /\ pc' = "loop" /\ idx' = idx + 1]_vars
    /\ [](pc \notin {"done", "abort"} => ENABLED DriverStep)
    /\ [][pc' # pc \/ idx' # idx => Remaining' < Remaining]_vars
    /\ [](pc = "done" => (AllAudited \/ CapReached))

\* an item failed and the item after it was audited
C10_Witness ==
    /\ Len(writer) = 2
    /\ writer[1].status = "error"
    /\ writer[2].source_path # writer[1].source_path

\* the row written last is an error row of the item just finished
JustFailed ==
    /\ pc = "loop" /\ idx > 1 /\ writer # << >>
    /\ writer[Len(writer)].status = "error"
    /\ writer[Len(writer)].source_path = listing[idx - 1]

\* C11: an item whose audit record has status error is still at its source
\* path, with its content, and has not been relocated, whichever step of
\* the move raised.
C11_FailedItemStaysPut ==
    JustFailed =>
        /\ Exists(listing[idx - 1])
        /\ blobs[listing[idx - 1]].data = initial[listing[idx - 1]].data

\* the operations of the namespace rename strategy
RenameOps == {"create_directory", "rename"}

\* the operations of the copy-then-delete strategy
CopyDeleteOps == {"start_copy_from_url", "delete_blob"}

\* the operations issued so far
OpsIssued == {calls[i].op : i \in DOMAIN calls}

\* C12: when the probe failed or reported that atomic rename is unavailable
\* (is_hns_enabled returned False), no item of the run is relocated by a
\* namespace rename, whatever the other flags.
C12_NoRenameWithoutCapability ==
    (pc # "main" /\ ~hns) => OpsIssued \cap RenameOps = {}

\* the run relocates by namespace rename
OnRenamePath ==
    /\ pc \notin {"main", "abort"}
    /\ ApplyPath(args.dry_run, args.tag_only, use_adls, adls_client) = "rename"

\* C16: on the atomic-rename path the calls for an item come in the order
\* create the destination's parent directory, rename, set the tags on the
\* object at the destination; whatever create_directory answers, the rename
\* follows; the tags are set only after the rename succeeded (the object is
\* at the destination); and no copy or delete is issued.
C16_RenameOrder ==
    OnRenamePath =>
        /\ OpsIssued \cap CopyDeleteOps = {}
        /\ \A i \in DOMAIN calls :
              /\ calls[i].op = "create_directory" =>
                    \/ i = Len(calls) /\ pc = "rename"
                                      /\ calls[i].name = ParentDir(cur.dst)
                    \/ i < Len(calls) /\ calls[i + 1].op = "rename"
              /\ calls[i].op = "rename" =>
                    i > 1 /\ calls[i - 1].op = "create_directory"
              /\ calls[i].op = "set_blob_tags" =>
                    i > 2 /\ calls[i - 1].op = "rename"
                          /\ calls[i - 2].op = "create_directory"
        /\ pc = "set_tags_dst" =>
              /\ calls[Len(calls)] = Call("rename", cur.name)
              /\ Exists(cur.dst)
              /\ blobs[cur.dst].data = initial[cur.name].data
        /\ pc \in {"loop", "done", "create_directory", "rename", "set_tags_dst"}

\* an item was renamed and tagged at its destination
C16_Witness ==
    /\ OnRenamePath /\ writer # << >>
    /\ writer[Len(writer)].status = "ok"
    /\ calls # << >> /\ calls[Len(calls)].op = "set_blob_tags"
    /\ calls[Len(calls)].name = writer[Len(writer)].destination_path

\* the run is in tag-only mode
TagOnly == ~args.dry_run /\ args.tag_only

\* C17: in tag-only mode the organizer sets the classified tags on the object
\* at its source path and issues no copy, rename, delete or create-directory
\* call; the object paths of the store and every object's content are as the
\* run found them.
C17_TagOnlyFrame ==
    TagOnly =>
        /\ OpsIssued \subseteq {"download_blob", "set_blob_tags"}
        /\ DOMAIN blobs = DOMAIN initial
        /\ \A n \in DOMAIN blobs : blobs[n].data = initial[n].data
        /\ \A i \in DOMAIN calls :
              calls[i].op = "set_blob_tags" =>
                  \E j \in DOMAIN listing : calls[i].name = listing[j]
        /\ \A i \in DOMAIN writer :
              writer[i].status = "ok" =>
                  /\ writer[i].action = "tag-only"
                  /\ blobs[writer[i].source_path].tags = writer[i].tags_json
                  /\ \E p \in PreviewsOf(writer[i].source_path) :
                        writer[i].tags_json =
                            json_dumps(ClassifyItem(LastSegment(writer[i].source_path), p).tags)

\* a tag-only run tagged an item at its source path
C17_Witness ==
    /\ TagOnly /\ writer # << >>
    /\ writer[Len(writer)].status = "ok"
    /\ blobs[writer[Len(writer)].source_path].tags # NoTags

\* the non-marker items among the first n of the listing, in order
NonMarkers(n) ==
    LET NotMarker(name) == ~IsMarker(name)
    IN  SelectSeq(SubSeq(listing, 1, n), NotMarker)

\* the items the for loop has finished with
Finished == IF pc \in {"main", "abort"} THEN 0 ELSE idx - 1

\* C21: the audit ledger is append-only and in processing order: a row once
\* written is never changed or removed; the rows are, in order, one for each
\* non-marker item the loop has finished with, succeeded or failed; and a
\* marker entry is passed over with no store call and no row.
C21_LedgerAppendOnly ==
    /\ [][/\ Len(writer') >= Len(writer)
           /\ SubSeq(writer', 1, Len(writer)) = writer
           /\ Len(writer') <= Len(writer) + 1]_vars
    /\ [](/\ Len(writer) = Len(NonMarkers(Finished))
          /\ \A k \in DOMAIN writer :
                /\ writer[k].source_path = NonMarkers(Finished)[k]
                /\ writer[k].status \in {"ok", "error"})
    /\ [][(pc = "loop" /\ idx <= Len(listing) /\ IsMarker(listing[idx])
              /\ idx' # idx) =>
            (calls' = calls /\ writer' = writer /\ blobs' = blobs)]_vars

\* a run that ended with two rows, one of a failed and one of a succeeded
\* item, in the order of the listing
C21_Witness ==
    /\ pc = "done" /\ Len(writer) = 2
    /\ writer[1].source_path = listing[1]
    /\ writer[1].status = "error" /\ writer[2].status = "ok"

\* C22: with a cap N configured, at most N non-marker items are processed
\* (classified, acted on and audited) in a run, for any mix of successful
\* and failed items.
C22_CapBoundsProcessed ==
    args.max_files # 0 => Len(writer) <= args.max_files

\* the operations issued on a name so far
OpsOn(name) == {calls[i].op : i \in {j \in DOMAIN calls : calls[j].name = name}}

\* the rows in the file at args.audit_log, the one file the driver writes
AuditFile == {writer[i] : i \in DOMAIN writer}

\* C25: each run produces its own ledger: after a second run invoked with
\* the same arguments, the audit records written by the first run are still
\* available, neither overwritten nor removed.
C25_LedgerPerInvocation ==
    \A k \in DOMAIN ledgers :
        \A i \in DOMAIN ledgers[k] : ledgers[k][i] \in AuditFile

\* C26: the action of an audit row with status ok names the strategy that
\* was executed for the item: rename only when a namespace rename of the
\* source was issued, copy+delete only when a copy to the destination and a
\* delete of the source were issued.
C26_ActionNamesStrategy ==
    \A i \in DOMAIN writer :
        writer[i].status = "ok" =>
            /\ writer[i].action = "rename" =>
                  "rename" \in OpsOn(writer[i].source_path)
            /\ writer[i].action = "copy+delete" =>
                  /\ "start_copy_from_url" \in OpsOn(writer[i].destination_path)
                  /\ "delete_blob" \in OpsOn(writer[i].source_path)

\* the step is the relocation of the item in hand onto a path other than
\* its own where an object already is
MovesOntoExisting ==
    /\ pc \in {"rename", "start_copy"} /\ pc' # pc
    /\ cur.dst # cur.name
    /\ Exists(cur.dst)

\* C27: when --overwrite is not given, no move replaces or deletes an object
\* that was at the destination path before the move started.
C27_NoOverwriteWithoutFlag ==
    [][(~args.overwrite /\ MovesOntoExisting) =>
          /\ cur.dst \in DOMAIN blobs'
          /\ blobs'[cur.dst] = blobs[cur.dst]]_vars

\* C29: a filename whose only condition wording is a code of the closed list
\* is classified with that code as its condition, so that every code of the
\* list is attainable.
C29_CodeWinsForOwnName ==
    (pc = "classified" /\ cur.name \in CodeNames) =>
        cur.tags.condition = cur.name

(***************************************************************************)
(* Properties of the filename normalizer (SpecNorm).                       *)
(***************************************************************************)
\* the result of the operation that returned last
LastResult == results[Len(results)]

\* the step issues the delete of the source blob
DeletesSource ==
    /\ Len(calls') = Len(calls) + 1
    /\ result # NoResult
    /\ calls'[Len(calls')] = Call("delete_blob", result.blob_name)

\* the step returns from normalize_blob_filename
Returns == Len(results') = Len(results) + 1

\* the step is a step of normalize_blob_filename (each issues a store call)
OperationStep == calls' # calls /\ result # NoResult

\* C3: normalize_blob_filename issues the delete of the source only when the
\* source checksum and the destination checksum were both computed and are
\* equal; no other step of the operation touches the source blob, and an
\* execution in which the checksums were not both computed and equal returns
\* with the source blob present and with the content the operation found
\* (a source that was itself an unfinished copy when the operation began may
\* have been completed by the store meanwhile).
C3_DeleteOnlyWhenVerified ==
    [][/\ DeletesSource =>
            /\ result.source_checksum # None
            /\ result.dest_checksum # None
            /\ result.dest_checksum = result.source_checksum
       /\ (OperationStep /\ ~DeletesSource /\ Exists(result.blob_name)) =>
            /\ result.blob_name \in DOMAIN blobs'
            /\ blobs'[result.blob_name] = blobs[result.blob_name]
       /\ (Returns /\ pc # "delete_original" /\ original' # Absent) =>
            /\ results'[Len(results')].blob_name \in DOMAIN blobs'
            /\ original'.data # PartialData =>
                  blobs'[results'[Len(results')].blob_name] = original']_vars

\* a live call returned checksum_mismatch and the source is there
C3_Witness ==
    /\ pc = "idle" /\ results # << >>
    /\ LastResult.reason = "checksum_mismatch"
    /\ Exists(LastResult.blob_name)
    /\ blobs[LastResult.blob_name] = original

\* C4: whenever normalize_blob_filename returns checksum_mismatch, the
\* destination object does not exist afterward and the source still exists
\* with its original content, however the store answered the clean-up delete.
C4_MismatchLeavesSafeState ==
    (pc = "idle" /\ results # << >> /\ LastResult.reason = "checksum_mismatch") =>
        /\ ~Exists(LastResult.normalized_name)
        /\ Exists(LastResult.blob_name)
        /\ blobs[LastResult.blob_name] = original

\* the outcomes of a live call that got as far as the source checksum
LiveOutcome(r) ==
    \/ r.action = "renamed"
    \/ r.reason \in {"checksum_failed", "checksum_mismatch",
                     "rename_failed: ServiceError", "rename_failed: BlobNotFound"}

\* C5: when normalize_blob_filename has returned for an item, with any
\* outcome, the item's content is at exactly one of its source path and its
\* destination path, never at both.
C5_AtMostOneCopy ==
    (pc = "idle" /\ results # << >> /\ LiveOutcome(LastResult)) =>
        LET atSource == /\ Exists(LastResult.blob_name)
                        /\ blobs[LastResult.blob_name].data = original.data
            atDest   == /\ Exists(LastResult.normalized_name)
                        /\ blobs[LastResult.normalized_name].data = original.data
        IN  atSource # atDest

\* the comparison of line 160 has been made and the call has not returned
Compared == pc \in {"cleanup", "delete_original"}

\* C23: whenever a digest could not be computed (the source's before the
\* copy or the destination's after it) the reason is checksum_failed, and
\* checksum_mismatch is the reason only when both digests were computed and
\* differ.
C23_ChecksumFailedNotMismatch ==
    /\ \A i \in DOMAIN results :
          results[i].reason = "checksum_failed" => results[i].action = "skipped"
    /\ Compared =>
          /\ result.source_checksum # None
          /\ result.dest_checksum = None => result.reason = "checksum_failed"
          /\ result.reason = "checksum_mismatch" =>
                /\ result.dest_checksum # None
                /\ result.dest_checksum # result.source_checksum

\* the store has not yet reported the copy to the new name as complete
CopyInProgress == \E c \in copying : c.dst = result.normalized_name

\* C24: the destination checksum is computed, and the decision that depends
\* on it (delete the source, or delete the destination as corrupt) is taken,
\* only after the store has reported the copy as complete.
C24_VerifyAfterCopyComplete ==
    [][(pc \in {"dest_checksum", "cleanup", "delete_original"} /\ pc' # pc)
          => ~CopyInProgress]_vars

\* the call that has returned last but one
PreviousResult == results[Len(results) - 1]

\* the call in hand, or the one that returned last, was made on the blob the
\* call before it had renamed, and found the blob
RunAgainOnRenamed ==
    \/ /\ result # NoResult /\ results # << >>
       /\ LastResult.action = "renamed"
       /\ result.blob_name = LastResult.normalized_name
    \/ /\ result = NoResult /\ Len(results) >= 2
       /\ PreviousResult.action = "renamed"
       /\ LastResult.blob_name = PreviousResult.normalized_name
       /\ LastResult.reason # "blob_not_found"

\* C28: normalize_blob_filename run again on the blob it has renamed (with
\* the same tags) reports skipped with reason already_normalized and does
\* not rename the blob a second time.
C28_NormalizerIdempotent ==
    RunAgainOnRenamed =>
        /\ result = NoResult
        /\ LastResult.action = "skipped"
        /\ LastResult.reason = "already_normalized"
====
